---- MODULE Spec2Model ----
(***************************************************************************)
(* Model of projectile.py: the Projectile class (launch parameters,        *)
(* displacement, per-x height, sampling), the Graph class (coordinate      *)
(* table and character plot) and projectile_helper.                        *)
(*                                                                         *)
(* Numbers.  Python floats are modelled as fixed-point integers, each      *)
(* arithmetic operation rounding its result to the nearest representable   *)
(* value (ties to even), as a float operation does:                        *)
(*   lengths, speeds, coordinates : thousandths (1 m = 1000)               *)
(*   squared speeds               : thousandths of m^2/s^2                 *)
(*   sin, cos, tan, radians       : ten-thousandths                        *)
(*   degrees supplied by callers  : tenths of a degree                     *)
(* A Python exception is a result whose err field names the exception.     *)
(***************************************************************************)
EXTENDS Integers, Sequences, FiniteSets, TLC

VARIABLES
    speed,        \* Projectile.__speed
    height,       \* Projectile.__height
    angle,        \* Projectile.__angle (radians)
    degSupplied,  \* history: the degree value last given to __init__ / angle setter
    coordinates,  \* Graph.__coordinates
    graphMade,    \* whether a Graph object has been constructed
    ret,          \* the last operation called and what it returned or raised
    args,         \* projectile_helper / client: the arguments of the call
    entry,        \* client: which entry point is exercised
    pc,           \* projectile_helper: the next statement
    out           \* standard output: the sequence of blocks printed so far

vars == <<speed, height, angle, degSupplied, coordinates, graphMade, ret,
          args, entry, pc, out>>

----------------------------------------------------------------------------
(* Bounds of the model *)

MaxSpeed == 4
MaxHeight == 2
MaxLen == 2
MaxCoord == 2

(* Program constants (line 3 to 6); the three glyphs are written in ASCII *)
GRAVITATIONAL_ACCELERATION == 9810
PROJECTILE == "o"
x_axis_tick == "T"
y_axis_tick == "|"

----------------------------------------------------------------------------
(* Results and exceptions *)

Ok(v) == [err |-> "none", val |-> v]
Raise(e) == [err |-> e]
IsOk(r) == r.err = "none"

----------------------------------------------------------------------------
(* Arithmetic *)

Max(a, b) == IF a >= b THEN a ELSE b
Abs(a) == IF a >= 0 THEN a ELSE -a

\* a / b (b > 0) rounded to the nearest integer, ties to the even one:
\* the rounding of a float operation and of Python's round().
RoundDiv(a, b) ==
    LET q == a \div b
        r == a % b
    IN  IF 2 * r < b THEN q
        ELSE IF 2 * r > b THEN q + 1
        ELSE IF q % 2 = 0 THEN q ELSE q + 1

\* a / b for any b # 0
Div(a, b) == IF b > 0 THEN RoundDiv(a, b) ELSE RoundDiv(-a, -b)

\* round(v) of a value in thousandths: an integer
Round(v) == RoundDiv(v, 1000)

\* Mutant of Ceil: math.floor in place of math.ceil
Ceil_floor(v) == v \div 1000

\* math.ceil(v) of a value in thousandths: an integer
Ceil(v) == -((-v) \div 1000)

RECURSIVE SqrtSearch(_, _, _)
SqrtSearch(n, lo, hi) ==
    IF hi - lo <= 1 THEN lo
    ELSE LET mid == (lo + hi) \div 2
         IN  IF mid * mid <= n THEN SqrtSearch(n, mid, hi)
             ELSE SqrtSearch(n, lo, mid)

\* math.sqrt(n), n >= 0 in millionths, result in thousandths
Sqrt(n) ==
    LET f == SqrtSearch(n, 0, 46340)
    IN  IF n - f * f <= f THEN f ELSE f + 1

\* math.radians(d): tenths of a degree to ten-thousandths of a radian
Radians(d) == RoundDiv(d * 174533, 10000)

\* math.degrees(r): ten-thousandths of a radian to thousandths of a degree
Degrees(r) == RoundDiv(r * 57296, 10000)

\* The Taylor series of sin and cos, every term rounded
RECURSIVE Series(_, _, _, _)
Series(term, x2, k, last) ==
    IF k > last \/ term = 0 THEN 0
    ELSE term + Series(-Div(term * x2, 10000 * k * (k + 1)), x2, k + 2, last)

Sin(r) == Series(r, RoundDiv(r * r, 10000), 2, 12)
Cos(r) == Series(10000, RoundDiv(r * r, 10000), 1, 11)
Tan(r) == Div(Sin(r) * 10000, Cos(r))

----------------------------------------------------------------------------
(* Projectile *)

\* Mutant of calculate_displacement: the square root of the absolute value,
\* so that a negative discriminant yields a number
calculate_displacement_abs(s, h, a) ==
    LET horizontal_component == RoundDiv(s * Cos(a), 10000)
        vertical_component == RoundDiv(s * Sin(a), 10000)
        squared_component == vertical_component * vertical_component
        gh_component == 2 * GRAVITATIONAL_ACCELERATION * h
        sqrt_component == Sqrt(Abs(squared_component + gh_component))
    IN  Ok(RoundDiv(horizontal_component * (vertical_component + sqrt_component),
                    GRAVITATIONAL_ACCELERATION))

\* Projectile.__calculate_displacement
calculate_displacement(s, h, a) ==
    LET horizontal_component == RoundDiv(s * Cos(a), 10000)
        vertical_component == RoundDiv(s * Sin(a), 10000)
        squared_component == vertical_component * vertical_component
        gh_component == 2 * GRAVITATIONAL_ACCELERATION * h
    IN  IF squared_component + gh_component < 0
        THEN Raise("ValueError")
        ELSE LET sqrt_component == Sqrt(squared_component + gh_component)
             IN  Ok(RoundDiv(horizontal_component
                               * (vertical_component + sqrt_component),
                             GRAVITATIONAL_ACCELERATION))

\* Projectile.__calculate_y_coordinate, x an integer number of metres
calculate_y_coordinate(s, h, a, x) ==
    LET height_component == h
        angle_component == RoundDiv(Tan(a) * x, 10)
        divisor == RoundDiv(2 * RoundDiv(s * s, 1000)
                              * RoundDiv(Cos(a) * Cos(a), 10000), 10000)
    IN  IF divisor = 0
        THEN Raise("ZeroDivisionError")
        ELSE LET acceleration_component ==
                     RoundDiv(GRAVITATIONAL_ACCELERATION * x * x * 1000, divisor)
             IN  Ok(height_component + angle_component - acceleration_component)

\* Mutant of Range: range(n + 1), one sample too many
Range_inclusive(n) == [i \in 1..Max(n + 1, 0) |-> i - 1]

\* range(n) of Python: 0 .. n-1, empty when n <= 0
Range(n) == [i \in 1..Max(n, 0) |-> i - 1]

\* Projectile.calculate_all_coordinates
calculate_all_coordinates(s, h, a) ==
    LET d == calculate_displacement(s, h, a)
    IN  IF ~IsOk(d) THEN d
        ELSE LET xs == Range(Ceil(d.val))
                 ys == [i \in DOMAIN xs |-> calculate_y_coordinate(s, h, a, xs[i])]
             IN  IF \E i \in DOMAIN ys : ~IsOk(ys[i])
                 THEN ys[CHOOSE i \in DOMAIN ys :
                             ~IsOk(ys[i]) /\ \A j \in 1..(i - 1) : IsOk(ys[j])]
                 ELSE Ok([i \in DOMAIN xs |-> <<xs[i] * 1000, ys[i].val>>])

\* Projectile.__init__: the fields of the new object
init(s, h, d) == [speed |-> s, height |-> h, angle |-> Radians(d)]

\* Projectile.angle (getter)
angle_get(a) == RoundDiv(Degrees(a), 1000)

\* Mutant of angle_set: the degrees stored without conversion
angle_set_raw(n) == n

\* Projectile.angle (setter): the new value of __angle
angle_set(n) == Radians(n)

\* Projectile.__str__: the fields of the summary text, the displacement
\* rounded to one decimal (tenths)
str(s, h, a) ==
    LET d == calculate_displacement(s, h, a)
    IN  IF ~IsOk(d) THEN d
        ELSE Ok([speed |-> s, height |-> h, angle |-> angle_get(a),
                 displacement |-> RoundDiv(d.val, 100)])

----------------------------------------------------------------------------
(* Graph *)

\* Graph.create_coordinates_table: the lines of the returned text: an empty
\* line, the header line, one line per point with x as stored and y rounded
\* to two decimals (hundredths), and the empty end after the last line break
create_coordinates_table(coord) ==
    <<<<>>, <<"x", "y">>>>
        \o [i \in DOMAIN coord |-> <<coord[i][1], RoundDiv(coord[i][2], 10)>>]
        \o <<<<>>>>

\* rounded_coords of create_trajectory
rounded_coords(coord) ==
    [i \in DOMAIN coord |-> <<Round(coord[i][1]), Round(coord[i][2])>>]

\* Mutant of py_max: max(..., default=(0, 0)), no error on an empty sequence
py_max_default(rc, k) ==
    IF rc = <<>> THEN Ok(0)
    ELSE Ok(CHOOSE m \in {rc[i][k] : i \in DOMAIN rc} :
                \A i \in DOMAIN rc : rc[i][k] <= m)

\* max(rounded_coords, key = the k-th component)[k]
py_max(rc, k) ==
    IF rc = <<>> THEN Raise("ValueError")
    ELSE Ok(CHOOSE m \in {rc[i][k] : i \in DOMAIN rc} :
                \A i \in DOMAIN rc : rc[i][k] <= m)

\* Mutant of matrix_list: range(y_max) rows, one row too few
matrix_list_short(x_max, y_max) ==
    [r \in 1..Max(y_max, 0) |-> [c \in 1..Max(x_max + 1, 0) |-> " "]]

\* [[" " for _ in range(x_max + 1)] for _ in range(y_max + 1)]
matrix_list(x_max, y_max) ==
    [r \in 1..Max(y_max + 1, 0) |-> [c \in 1..Max(x_max + 1, 0) |-> " "]]

\* Python's list subscript i on a list of n items: the 1-based position,
\* counting from the end when i < 0; 0 stands for IndexError
py_index(i, n) ==
    LET j == IF i < 0 THEN i + n ELSE i
    IN  IF j >= 0 /\ j < n THEN j + 1 ELSE 0

\* for x, y in rounded_coords: matrix_list[-1 - y][x] = PROJECTILE
RECURSIVE mark(_, _, _)
mark(m, rc, k) ==
    IF k > Len(rc) THEN Ok(m)
    ELSE LET r == py_index(-1 - rc[k][2], Len(m))
         IN  IF r = 0 THEN Raise("IndexError")
             ELSE LET c == py_index(rc[k][1], Len(m[r]))
                  IN  IF c = 0 THEN Raise("IndexError")
                      ELSE mark([m EXCEPT ![r][c] = PROJECTILE], rc, k + 1)

\* Graph.create_trajectory: the lines of the returned text, each a sequence
\* of characters ("\n" + "\n".join(matrix_axes) + "\n" begins and ends with
\* an empty line)
create_trajectory(coord) ==
    LET rc == rounded_coords(coord)
        x_max == py_max(rc, 1)
        y_max == py_max(rc, 2)
    IN  IF ~IsOk(x_max) THEN x_max
        ELSE IF ~IsOk(y_max) THEN y_max
        ELSE LET matrix == mark(matrix_list(x_max.val, y_max.val), rc, 1)
             IN  IF ~IsOk(matrix) THEN matrix
                 ELSE IF matrix.val = <<>> THEN Raise("IndexError")
                 ELSE LET matrix_axes ==
                              [i \in DOMAIN matrix.val |->
                                  <<y_axis_tick>> \o matrix.val[i]]
                          trailer ==
                              <<" ">> \o [c \in DOMAIN matrix.val[1] |-> x_axis_tick]
                      IN  Ok(<<<<>>>> \o Append(matrix_axes, trailer) \o <<<<>>>>)

----------------------------------------------------------------------------
(* A method call: what it returns or raises (res) and the object's fields  *)
(* when it ends (self).  None of the four methods assigns to a field.      *)

\* self.__calculate_displacement()
Displacement(self) ==
    [res |-> calculate_displacement(self.speed, self.height, self.angle),
     self |-> self]

\* self.calculate_all_coordinates()
CalculateAllCoordinates(self) ==
    [res |-> calculate_all_coordinates(self.speed, self.height, self.angle),
     self |-> self]

\* self.create_coordinates_table()
CreateCoordinatesTable(self) ==
    [res |-> Ok(create_coordinates_table(self)), self |-> self]

\* Mutant of CreateTrajectory: the coordinates rounded in place
CreateTrajectory_inplace(self) ==
    [res |-> create_trajectory(self),
     self |-> [i \in DOMAIN self |->
                  <<1000 * Round(self[i][1]), 1000 * Round(self[i][2])>>]]

\* self.create_trajectory()
CreateTrajectory(self) ==
    [res |-> create_trajectory(self), self |-> self]

----------------------------------------------------------------------------
(* Inputs *)

Speeds == {1000 * s : s \in 0..MaxSpeed}
Heights == {700 * h : h \in -1..MaxHeight}
Angles == {-300, 0, 145, 450, 800}

ball == [speed |-> speed, height |-> height, angle |-> angle]

Called(op, res) == [op |-> op, res |-> res]

----------------------------------------------------------------------------
(* Spec: a client that owns one Projectile and at most one Graph and calls *)
(* their methods in any order.                                             *)

clientVars == <<args, entry, pc, out>>

Init ==
    \E s \in Speeds, h \in Heights, d \in Angles :
        /\ speed = init(s, h, d).speed
        /\ height = init(s, h, d).height
        /\ angle = init(s, h, d).angle
        /\ degSupplied = d
        /\ coordinates = <<>>
        /\ graphMade = FALSE
        /\ ret = Called("__init__", Ok(<<>>))
        /\ args = <<>>
        /\ entry = "client"
        /\ pc = "client"
        /\ out = <<>>

GetSpeed ==
    /\ ret' = Called("speed", Ok(speed))
    /\ UNCHANGED <<speed, height, angle, degSupplied, coordinates, graphMade, clientVars>>

GetHeight ==
    /\ ret' = Called("height", Ok(height))
    /\ UNCHANGED <<speed, height, angle, degSupplied, coordinates, graphMade, clientVars>>

GetAngle ==
    /\ ret' = Called("angle", Ok(angle_get(angle)))
    /\ UNCHANGED <<speed, height, angle, degSupplied, coordinates, graphMade, clientVars>>

SetSpeed ==
    \E s \in Speeds :
        /\ speed' = s
        /\ ret' = Called("speed.setter", Ok(<<>>))
        /\ UNCHANGED <<height, angle, degSupplied, coordinates, graphMade, clientVars>>

SetHeight ==
    \E n \in Heights :
        /\ height' = n
        /\ ret' = Called("height.setter", Ok(<<>>))
        /\ UNCHANGED <<speed, angle, degSupplied, coordinates, graphMade, clientVars>>

SetAngle ==
    \E n \in Angles :
        /\ angle' = angle_set(n)
        /\ degSupplied' = n
        /\ ret' = Called("angle.setter", Ok(<<>>))
        /\ UNCHANGED <<speed, height, coordinates, graphMade, clientVars>>

CallStr ==
    /\ ret' = Called("__str__", str(speed, height, angle))
    /\ UNCHANGED <<speed, height, angle, degSupplied, coordinates, graphMade, clientVars>>

CallDisplacement ==
    LET r == Displacement(ball)
    IN  /\ ret' = Called("calculate_displacement", r.res)
        /\ speed' = r.self.speed
        /\ height' = r.self.height
        /\ angle' = r.self.angle
        /\ UNCHANGED <<degSupplied, coordinates, graphMade, clientVars>>

CallCalculateAllCoordinates ==
    LET r == CalculateAllCoordinates(ball)
    IN  /\ ret' = Called("calculate_all_coordinates", r.res)
        /\ speed' = r.self.speed
        /\ height' = r.self.height
        /\ angle' = r.self.angle
        /\ UNCHANGED <<degSupplied, coordinates, graphMade, clientVars>>

\* Graph(coordinates), with the list calculate_all_coordinates just returned
NewGraph ==
    /\ ret.op = "calculate_all_coordinates"
    /\ IsOk(ret.res)
    /\ coordinates' = ret.res.val
    /\ graphMade' = TRUE
    /\ ret' = Called("Graph", Ok(<<>>))
    /\ UNCHANGED <<speed, height, angle, degSupplied, clientVars>>

CallCreateCoordinatesTable ==
    /\ graphMade
    /\ LET r == CreateCoordinatesTable(coordinates)
       IN  /\ ret' = Called("create_coordinates_table", r.res)
           /\ coordinates' = r.self
    /\ UNCHANGED <<speed, height, angle, degSupplied, graphMade, clientVars>>

CallCreateTrajectory ==
    /\ graphMade
    /\ LET r == CreateTrajectory(coordinates)
       IN  /\ ret' = Called("create_trajectory", r.res)
           /\ coordinates' = r.self
    /\ UNCHANGED <<speed, height, angle, degSupplied, graphMade, clientVars>>

Next ==
    \/ GetSpeed
    \/ GetHeight
    \/ GetAngle
    \/ SetSpeed
    \/ SetHeight
    \/ SetAngle
    \/ CallStr
    \/ CallDisplacement
    \/ CallCalculateAllCoordinates
    \/ NewGraph
    \/ CallCreateCoordinatesTable
    \/ CallCreateTrajectory

Spec == Init /\ [][Next]_vars

----------------------------------------------------------------------------
(* GraphSpec: a Graph constructed from any short sequence of points, whose *)
(* two methods are then called.                                            *)

CoordVals == {1000 * k : k \in -1..MaxCoord} \cup {1500}
Points == CoordVals \X CoordVals
PointSeqs == UNION {[1..n -> Points] : n \in 0..MaxLen}

GraphInit ==
    /\ coordinates \in PointSeqs
    /\ graphMade = TRUE
    /\ ret = Called("Graph", Ok(<<>>))
    /\ speed = 0
    /\ height = 0
    /\ angle = 0
    /\ degSupplied = 0
    /\ args = <<>>
    /\ entry = "client"
    /\ pc = "client"
    /\ out = <<>>

GraphNext ==
    \/ CallCreateCoordinatesTable
    \/ CallCreateTrajectory

GraphSpec == GraphInit /\ [][GraphNext]_vars

----------------------------------------------------------------------------
(* RunSpec: one call of projectile_helper(speed, height, angle), statement *)
(* by statement, or a program that constructs a Projectile and calls one   *)
(* of its methods.  An exception that no statement catches ends the run    *)
(* (pc = "raised").                                                        *)

Entries == {"projectile_helper", "__str__", "calculate_displacement",
            "calculate_all_coordinates", "calculate_y_coordinate"}

\* Mutant of after: the exception is swallowed and the run goes on
after_swallow(res, following) == following

\* Sequencing: the statement that follows, unless the call raised
after(res, following) == IF IsOk(res) THEN following ELSE "raised"

\* print(text): one block written to standard output
print(block, text) == Append(out, [block |-> block, text |-> text])

RunInit ==
    /\ args \in [speed : Speeds, height : Heights, angle : Angles]
    /\ entry \in Entries
    /\ pc = "new"
    /\ out = <<>>
    /\ speed = 0
    /\ height = 0
    /\ angle = 0
    /\ degSupplied = 0
    /\ coordinates = <<>>
    /\ graphMade = FALSE
    /\ ret = Called("start", Ok(<<>>))

\* ball = Projectile(speed, height, angle)
New ==
    /\ pc = "new"
    /\ speed' = init(args.speed, args.height, args.angle).speed
    /\ height' = init(args.speed, args.height, args.angle).height
    /\ angle' = init(args.speed, args.height, args.angle).angle
    /\ degSupplied' = args.angle
    /\ ret' = Called("__init__", Ok(<<>>))
    /\ pc' = IF entry = "projectile_helper" THEN "print_ball" ELSE "call"
    /\ UNCHANGED <<coordinates, graphMade, args, entry, out>>

\* print(ball)
PrintBall ==
    /\ pc = "print_ball"
    /\ LET r == str(speed, height, angle)
       IN  /\ ret' = Called("__str__", r)
           /\ out' = IF IsOk(r) THEN print("summary", r.val) ELSE out
           /\ pc' = after(r, "calculate")
    /\ UNCHANGED <<speed, height, angle, degSupplied, coordinates, graphMade, args, entry>>

\* coordinates = ball.calculate_all_coordinates()
Calculate ==
    /\ pc = "calculate"
    /\ LET r == CalculateAllCoordinates(ball)
       IN  /\ ret' = Called("calculate_all_coordinates", r.res)
           /\ speed' = r.self.speed
           /\ height' = r.self.height
           /\ angle' = r.self.angle
           /\ pc' = after(r.res, "graph")
    /\ UNCHANGED <<degSupplied, coordinates, graphMade, args, entry, out>>

\* graph = Graph(coordinates)
MakeGraph ==
    /\ pc = "graph"
    /\ coordinates' = ret.res.val
    /\ graphMade' = TRUE
    /\ pc' = "print_table"
    /\ UNCHANGED <<speed, height, angle, degSupplied, ret, args, entry, out>>

\* print(graph.create_coordinates_table())
PrintTable ==
    /\ pc = "print_table"
    /\ LET r == CreateCoordinatesTable(coordinates)
       IN  /\ ret' = Called("create_coordinates_table", r.res)
           /\ coordinates' = r.self
           /\ out' = IF IsOk(r.res) THEN print("table", r.res.val) ELSE out
           /\ pc' = after(r.res, "print_trajectory")
    /\ UNCHANGED <<speed, height, angle, degSupplied, graphMade, args, entry>>

\* print(graph.create_trajectory())
PrintTrajectory ==
    /\ pc = "print_trajectory"
    /\ LET r == CreateTrajectory(coordinates)
       IN  /\ ret' = Called("create_trajectory", r.res)
           /\ coordinates' = r.self
           /\ out' = IF IsOk(r.res) THEN print("plot", r.res.val) ELSE out
           /\ pc' = after(r.res, "done")
    /\ UNCHANGED <<speed, height, angle, degSupplied, graphMade, args, entry>>

\* str(ball), called directly
DirectStr ==
    /\ pc = "call"
    /\ entry = "__str__"
    /\ ret' = Called("__str__", str(speed, height, angle))
    /\ pc' = after(ret'.res, "done")
    /\ UNCHANGED <<speed, height, angle, degSupplied, coordinates, graphMade, args, entry, out>>

\* ball._Projectile__calculate_displacement(), called directly
DirectDisplacement ==
    /\ pc = "call"
    /\ entry = "calculate_displacement"
    /\ LET r == Displacement(ball)
       IN  /\ ret' = Called("calculate_displacement", r.res)
           /\ speed' = r.self.speed
           /\ height' = r.self.height
           /\ angle' = r.self.angle
           /\ pc' = after(r.res, "done")
    /\ UNCHANGED <<degSupplied, coordinates, graphMade, args, entry, out>>

\* ball.calculate_all_coordinates(), called directly
DirectCalculateAllCoordinates ==
    /\ pc = "call"
    /\ entry = "calculate_all_coordinates"
    /\ LET r == CalculateAllCoordinates(ball)
       IN  /\ ret' = Called("calculate_all_coordinates", r.res)
           /\ speed' = r.self.speed
           /\ height' = r.self.height
           /\ angle' = r.self.angle
           /\ pc' = after(r.res, "done")
    /\ UNCHANGED <<degSupplied, coordinates, graphMade, args, entry, out>>

\* ball._Projectile__calculate_y_coordinate(x), called directly
DirectYCoordinate ==
    /\ pc = "call"
    /\ entry = "calculate_y_coordinate"
    /\ \E x \in 0..1 :
        /\ ret' = Called("calculate_y_coordinate",
                         calculate_y_coordinate(speed, height, angle, x))
        /\ pc' = after(ret'.res, "done")
    /\ UNCHANGED <<speed, height, angle, degSupplied, coordinates, graphMade, args, entry, out>>

RunNext ==
    \/ New
    \/ PrintBall
    \/ Calculate
    \/ MakeGraph
    \/ PrintTable
    \/ PrintTrajectory
    \/ DirectStr
    \/ DirectDisplacement
    \/ DirectCalculateAllCoordinates
    \/ DirectYCoordinate

RunSpec == RunInit /\ [][RunNext]_vars

----------------------------------------------------------------------------
(* Properties of Graph.create_trajectory (GraphSpec)                       *)

PlottedLast == ret.op = "create_trajectory"

\* the rounded coordinates of the i-th stored point and their maxima
RX(i) == Round(coordinates[i][1])
RY(i) == Round(coordinates[i][2])
XMax == CHOOSE m \in {RX(i) : i \in DOMAIN coordinates} :
            \A i \in DOMAIN coordinates : RX(i) <= m
YMax == CHOOSE m \in {RY(i) : i \in DOMAIN coordinates} :
            \A i \in DOMAIN coordinates : RY(i) <= m

\* the returned text without its first and last (empty) line; its grid
\* lines are all but the last of these
Body(p) == SubSeq(p, 2, Len(p) - 1)
GridLines(p) == SubSeq(p, 2, Len(p) - 2)
\* the cells of a grid line: what follows the left-axis tick
Cells(line) == SubSeq(line, 2, Len(line))
\* the (row, column) pairs, counted from 0 from the top left, holding a marker
Markers(p) ==
    {<<r - 1, c - 1>> : r \in DOMAIN GridLines(p), c \in 1..(XMax + 1)} \cap
    {rc \in (0..(Len(GridLines(p)) - 1)) \X (0..XMax) :
        Cells(GridLines(p)[rc[1] + 1])[rc[2] + 1] = PROJECTILE}

\* C1 (as claimed): after create_trajectory on a non-empty sequence, a plot
\* is returned in which the cell at row (y_max - y) from the top and column
\* x holds the marker for every point (x, y), negative coordinates
\* included, and every other cell is blank.
C1_MarkerAtRowYMaxMinusY ==
    (PlottedLast /\ coordinates # <<>>) =>
        /\ IsOk(ret.res)
        /\ Len(GridLines(ret.res.val)) = YMax + 1
        /\ \A r \in 0..YMax, c \in 0..XMax :
              (Cells(GridLines(ret.res.val)[r + 1])[c + 1] = PROJECTILE)
                  <=> (\E i \in DOMAIN coordinates :
                          r = YMax - RY(i) /\ c = RX(i))
        /\ \A r \in 0..YMax, c \in 0..XMax :
              Cells(GridLines(ret.res.val)[r + 1])[c + 1] \in {PROJECTILE, " "}

C8_SinglePointRenders ==
    (PlottedLast /\ Len(coordinates) = 1) =>
        /\ IsOk(ret.res)
        /\ Len(GridLines(ret.res.val)) >= 1
        /\ \A r \in DOMAIN GridLines(ret.res.val) :
              Len(Cells(GridLines(ret.res.val)[r])) >= 1
        /\ Cardinality(Markers(ret.res.val)) = 1

----------------------------------------------------------------------------
(* Properties of projectile_helper and of the failing computations         *)
(* (RunSpec)                                                               *)

Helper == entry = "projectile_helper"
Blocks == <<"summary", "table", "plot">>
Written(block) == \E i \in DOMAIN out : out[i].block = block

\* C4: what has been written is always a prefix of summary, table, plot
\* (each at most once); a run of projectile_helper that ends without error
\* has written all three; output only grows, and after a call has raised
\* nothing more is written.
C4_OutputOrder ==
    /\ [](/\ Len(out) <= 3
          /\ \A i \in DOMAIN out : out[i].block = Blocks[i]
          /\ (Helper /\ pc = "done") => Len(out) = 3)
    /\ [][/\ (out' = out \/ \E b \in {out'[Len(out')]} : out' = Append(out, b))
          /\ ~IsOk(ret.res) => (out' = out /\ pc' = pc)]_vars

\* C4 witness: a run of projectile_helper ended with the three blocks
C4_Witness ==
    /\ Helper
    /\ pc = "done"
    /\ Len(out) = 3
    /\ Len(coordinates) >= 2

\* C5: create_trajectory called on an empty sequence raises (ValueError)
\* and returns no text, and the run that made the call ends there without
\* a plot block; a run of projectile_helper whose displacement is <= 0
\* never writes a plot block and never ends normally.
C5_EmptyPlotFails ==
    /\ (PlottedLast /\ coordinates = <<>>) =>
          /\ ret.res = Raise("ValueError")
          /\ pc = "raised"
          /\ ~Written("plot")
    /\ (Helper /\ pc # "new"
          /\ IsOk(calculate_displacement(speed, height, angle))
          /\ calculate_displacement(speed, height, angle).val <= 0) =>
          /\ ~Written("plot")
          /\ pc # "done"

\* C5 witness: the run reached create_trajectory with no point and stopped
\* after the summary and the table
C5_Witness ==
    /\ Helper
    /\ pc = "raised"
    /\ PlottedLast
    /\ coordinates = <<>>
    /\ Len(out) = 2

SpeedZero == pc # "new" /\ speed = 0 /\ height >= 0

\* C6 (as claimed): with speed 0 and height >= 0 the sampling step ends
\* with an error raised by the height or displacement computation:
\* calculate_all_coordinates raises, and projectile_helper ends with the
\* error of __str__ or of calculate_all_coordinates.
C6_SpeedZeroReported ==
    SpeedZero =>
        /\ ret.op = "calculate_all_coordinates" => ~IsOk(ret.res)
        /\ (Helper /\ pc \in {"graph", "print_table", "print_trajectory", "done"})
              => FALSE
        /\ (Helper /\ pc = "raised")
              => ret.op \in {"__str__", "calculate_all_coordinates"}

\* C6 (amended): with speed 0 and height >= 0 the displacement is 0, so
\* calculate_all_coordinates returns the empty sequence without evaluating
\* the height formula and without error; the division by zero is raised
\* only when the height formula itself is evaluated; projectile_helper
\* writes the summary (displacement 0.0) and the header-only table and then
\* ends with the ValueError of create_trajectory on the empty sequence.
C6_SpeedZeroEmptySampling ==
    SpeedZero =>
        /\ ret.op = "calculate_displacement" => ret.res = Ok(0)
        /\ ret.op = "calculate_all_coordinates" => ret.res = Ok(<<>>)
        /\ ret.op = "calculate_y_coordinate"
              => ret.res = Raise("ZeroDivisionError")
        /\ ret.op = "__str__" => (IsOk(ret.res) /\ ret.res.val.displacement = 0)
        /\ (Helper /\ pc \in {"done", "raised"}) =>
              /\ pc = "raised"
              /\ ret = Called("create_trajectory", Raise("ValueError"))
              /\ Len(out) = 2
              /\ out[2].text = <<<<>>, <<"x", "y">>, <<>>>>

\* C6 witness: projectile_helper(0, 0.7, 14.5) has ended
C6_Witness ==
    /\ SpeedZero
    /\ height > 0
    /\ Helper
    /\ pc = "raised"

\* the discriminant (v sin(angle))^2 + 2 g height, in millionths
Discriminant ==
    RoundDiv(speed * Sin(angle), 10000) * RoundDiv(speed * Sin(angle), 10000)
        + 2 * GRAVITATIONAL_ACCELERATION * height

\* C7: when the discriminant is negative, __calculate_displacement, __str__
\* and calculate_all_coordinates raise (ValueError) and the run ends there;
\* projectile_helper ends at print(ball) with nothing written; speed, height
\* and angle are as constructed.
C7_NegativeDiscriminant ==
    (pc # "new" /\ Discriminant < 0) =>
        /\ out = <<>>
        /\ speed = args.speed
        /\ height = args.height
        /\ angle = Radians(args.angle)
        /\ ret.op \in {"__str__", "calculate_displacement", "calculate_all_coordinates"}
              => (ret.res = Raise("ValueError") /\ pc = "raised")
        /\ Helper => pc \in {"print_ball", "raised"}
        /\ pc # "done" \/ entry = "calculate_y_coordinate"

\* C7 witness: projectile_helper ended at print(ball) on a negative
\* discriminant
C7_Witness ==
    /\ Helper
    /\ pc = "raised"
    /\ Discriminant < 0
    /\ ret = Called("__str__", Raise("ValueError"))

----------------------------------------------------------------------------
(* Properties of the Projectile and Graph objects (Spec)                   *)

SampledLast == ret.op = "calculate_all_coordinates"

\* C3: after calculate_all_coordinates, whenever the displacement d is
\* defined, the result is a sequence with one point for each integer x from
\* 0 to ceil(d) - 1 (n points with n - 1 < d <= n), the i-th point being
\* x = i - 1 paired with the height computed for that x; it is empty
\* whenever d <= 0.
C3_OnePointPerUnitStep ==
    (SampledLast /\ IsOk(calculate_displacement(speed, height, angle))) =>
        LET d == calculate_displacement(speed, height, angle).val
        IN  /\ IsOk(ret.res)
            /\ d <= 0 => ret.res.val = <<>>
            /\ d > 0 => /\ 1000 * (Len(ret.res.val) - 1) < d
                        /\ d <= 1000 * Len(ret.res.val)
            /\ \A i \in DOMAIN ret.res.val :
                  /\ ret.res.val[i][1] = 1000 * (i - 1)
                  /\ ret.res.val[i][2] =
                        calculate_y_coordinate(speed, height, angle, i - 1).val

\* C3 witness: a trajectory of at least three points was sampled, the
\* displacement not being a whole number of metres
C3_Witness ==
    /\ SampledLast
    /\ IsOk(ret.res)
    /\ Len(ret.res.val) >= 3
    /\ calculate_displacement(speed, height, angle).val % 1000 # 0

\* C9 (as claimed): the stored angle is radians(d) for the degree value d
\* last supplied, and reading the angle returns round(d).
C9_GetterReturnsRoundOfSupplied ==
    /\ angle = Radians(degSupplied)
    /\ ret.op = "angle" => ret.res.val = RoundDiv(degSupplied, 10)

\* C9 (amended): the stored angle is radians(d) for the degree value d last
\* supplied, whatever getters, other setters and computations were called
\* since; reading the angle returns round(degrees(radians(d))), an integer
\* at most half a degree from d, which is round(d) unless d is a tie
\* between two integers (there the conversion error decides).
C9_StoredAngleIsRadiansOfSupplied ==
    /\ angle = Radians(degSupplied)
    /\ ret.op = "angle" =>
          /\ ret.res.val = RoundDiv(Degrees(Radians(degSupplied)), 1000)
          /\ Abs(10 * ret.res.val - degSupplied) <= 5
          /\ degSupplied % 10 # 5 => ret.res.val = RoundDiv(degSupplied, 10)

\* C9 witness: the angle was read after 14.5 degrees had been supplied and
\* other operations had been called on a Graph built meanwhile
C9_Witness ==
    /\ ret.op = "angle"
    /\ degSupplied = 145
    /\ ret.res.val = 15
    /\ graphMade

PureOps == {"calculate_displacement", "calculate_all_coordinates",
            "create_coordinates_table", "create_trajectory"}

\* C10: a call of the displacement computation, calculate_all_coordinates,
\* create_coordinates_table or create_trajectory leaves speed, height, angle
\* and the Graph's point sequence unchanged, and when the operation called
\* just before was the same one, it returns the same result again.
C10_CallsArePure ==
    [][ret'.op \in PureOps =>
          /\ speed' = speed
          /\ height' = height
          /\ angle' = angle
          /\ coordinates' = coordinates
          /\ ret.op = ret'.op => ret'.res = ret.res]_vars

\* C10 witness: create_trajectory returned a plot of a trajectory of at
\* least two points with a fractional height
C10_Witness ==
    /\ PlottedLast
    /\ IsOk(ret.res)
    /\ Len(coordinates) >= 2
    /\ \E i \in DOMAIN coordinates : coordinates[i][2] % 1000 # 0

====
